---- MODULE Spec2Model ----
(***************************************************************************)
(* Model of examples/basic_usage.c: a GIF object that shows one of a fixed *)
(* set of named emotions, rotated by an LVGL timer, with manual override.  *)
(*                                                                         *)
(* Program state: the globals emotion_gif, emotion_timer and               *)
(* current_emotion_index, the source held by the GIF object emotion_gif    *)
(* points to, and LVGL's list of live timers.  The log lines of the last   *)
(* call are kept in logs.  op, run and run_start are history variables:    *)
(* the last call, how many calls of that kind came in a row, and the index *)
(* when that row began.  demo_all_emotions runs as a blocking call of the   *)
(* host task: demo_pc and demo_i are its position, demo_trace the calls it *)
(* has made so far, demo_clean whether no timer has fired since it began.  *)
(*                                                                         *)
(* ConcSpec is the program in a host that lets invocations overlap: tpc,   *)
(* tidx and tload are the position and the locals of each invocation of    *)
(* emotion_timer_callback, spc and sarg those of set_emotion_by_name, and  *)
(* conc_start, conc_begun, conc_sets and conc_done count what has run.     *)
(***************************************************************************)
EXTENDS Integers, Sequences, FiniteSets, TLC

VARIABLES registry, emotion_gif, gif_src, emotion_timer, lv_timers,
          current_emotion_index, logs, op, run, run_start,
          demo_pc, demo_i, demo_trace, demo_clean,
          tpc, tidx, tload, spc, sarg, conc_start, conc_begun, conc_sets, conc_done

vars == <<registry, emotion_gif, gif_src, emotion_timer, lv_timers,
          current_emotion_index, logs, op, run, run_start,
          demo_pc, demo_i, demo_trace, demo_clean,
          tpc, tidx, tload, spc, sarg, conc_start, conc_begun, conc_sets, conc_done>>

conc == <<tpc, tidx, tload, spc, sarg, conc_start, conc_begun, conc_sets, conc_done>>

history == <<op, run, run_start>>

demo == <<demo_pc, demo_i, demo_trace, demo_clean>>

prog == <<emotion_gif, gif_src, emotion_timer, lv_timers, current_emotion_index>>

\* ---------------------------------------------------------------- bounds
\* create_emotion_display is called at most MaxObjs times.
MaxObjs == 2
\* The registry lacks at most MaxMissing of the names of emotion_sequence.
MaxMissing == 1
\* Under ConcSpec emotion_timer_callback is invoked at most MaxTicks times
\* and set_emotion_by_name at most MaxSets times.
MaxTicks == 2
MaxSets == 1

\* ------------------------------------------------------------- constants
\* The null pointer of lv_obj_t* and lv_timer_t*.
NULL == 0
\* The null pointer of const lv_img_dsc_t*.
NULL_IMG == [dsc |-> "NULL"]

\* emotion_sequence[], indexed from 0 as in C.
emotion_sequence ==
    (0 :> "staticstate" @@ 1 :> "happy" @@ 2 :> "sad" @@
     3 :> "anger" @@ 4 :> "scare" @@ 5 :> "buxue")

\* sizeof(emotion_sequence) / sizeof(emotion_sequence[0])
emotion_count == Cardinality(DOMAIN emotion_sequence)

SequenceNames == {emotion_sequence[i] : i \in DOMAIN emotion_sequence}

\* The names a caller passes to set_emotion_by_name: the sequence's names and
\* one name no registry holds.
Names == SequenceNames \cup {"unknown"}

\* The image descriptor staticstate, whose address is the fallback handle.
staticstate == [dsc |-> "staticstate"]

\* The registries the component may have been built with.
Registries ==
    {SequenceNames \ miss : miss \in {m \in SUBSET SequenceNames : Cardinality(m) <= MaxMissing}}

\* Mutant: a name that is not registered yields the default descriptor.
otto_emoji_gif_get_by_name_defaulting(name) ==
    IF name \in registry THEN [dsc |-> name] ELSE staticstate

\* otto_emoji_gif_get_by_name: the descriptor registered under name, or NULL.
otto_emoji_gif_get_by_name(name) ==
    IF name \in registry THEN [dsc |-> name] ELSE NULL_IMG

\* lv_timer_create: a timer that is not live yet.
NewTimer == CHOOSE t \in 1..(Cardinality(lv_timers) + 1) : t \notin lv_timers

\* Log lines, by level.
LogI == "I"
LogW == "W"
LogE == "E"

\* ------------------------------------------------------------- history
\* The call named name, with argument arg, is recorded as the last call.
Record(name, arg) ==
    /\ op' = [name |-> name, arg |-> arg]
    /\ run' = IF op.name # name THEN 1
              ELSE IF name = "tick" /\ run < emotion_count THEN run + 1
              ELSE IF name = "tick" THEN 1
              ELSE 2
    /\ run_start' = IF op.name = name /\ (name # "tick" \/ run < emotion_count)
                    THEN run_start ELSE current_emotion_index

\* The contexts that may be inside emotion_timer_callback at the same time.
TickThreads == {"t1", "t2"}

\* ------------------------------------------------------------------ Init
Init ==
    /\ registry \in Registries
    /\ emotion_gif = NULL
    /\ gif_src = NULL_IMG
    /\ emotion_timer = NULL
    /\ lv_timers = {}
    /\ current_emotion_index = 0
    /\ logs = <<>>
    /\ op = [name |-> "init", arg |-> "-"]
    /\ run = 0
    /\ run_start = 0
    /\ demo_pc = "idle"
    /\ demo_i = 0
    /\ demo_trace = <<>>
    /\ demo_clean = TRUE
    /\ tpc = [t \in TickThreads |-> "idle"]
    /\ tidx = [t \in TickThreads |-> 0]
    /\ tload = [t \in TickThreads |-> 0]
    /\ spc = "idle"
    /\ sarg = "-"
    /\ conc_start = 0
    /\ conc_begun = 0
    /\ conc_sets = 0
    /\ conc_done = 0

\* --------------------------------------------------------------- actions
\* (current_emotion_index + 1) % emotion_count
NextIndexWrong(i) == (i + 1) % (emotion_count - 1)

\* Mutant: the modulus is one too large.
NextIndexNoWrap(i) == (i + 1) % (emotion_count + 1)

NextIndex(i) == (i + 1) % emotion_count

\* Mutant: the name is read after the index has been advanced.
CurrentEmotionNameAfterAdvance == emotion_sequence[NextIndex(current_emotion_index)]

\* emotion_sequence[current_emotion_index], read before the index is advanced.
CurrentEmotionName == emotion_sequence[current_emotion_index]

\* Mutant: a name that is not found leaves the GIF's source as it was.
emotion_timer_callback_no_fallback(t) ==
    /\ t \in lv_timers
    /\ IF emotion_gif = NULL
       THEN /\ UNCHANGED <<gif_src, current_emotion_index>>
            /\ logs' = <<>>
       ELSE LET emotion == otto_emoji_gif_get_by_name(CurrentEmotionName)
            IN /\ IF emotion # NULL_IMG
                  THEN /\ gif_src' = emotion
                       /\ logs' = <<LogI>>
                  ELSE /\ UNCHANGED gif_src
                       /\ logs' = <<LogW>>
               /\ current_emotion_index' = NextIndex(current_emotion_index)
    /\ UNCHANGED <<registry, emotion_gif, emotion_timer, lv_timers>>
    /\ Record("tick", "-")

\* emotion_timer_callback, run by LVGL for the live timer t.
emotion_timer_callback(t) ==
    /\ t \in lv_timers
    /\ IF emotion_gif = NULL
       THEN /\ UNCHANGED <<gif_src, current_emotion_index>>
            /\ logs' = <<>>
       ELSE LET emotion_name == CurrentEmotionName
                emotion == otto_emoji_gif_get_by_name(emotion_name)
            IN /\ IF emotion # NULL_IMG
                  THEN /\ gif_src' = emotion
                       /\ logs' = <<LogI>>
                  ELSE /\ gif_src' = staticstate
                       /\ logs' = <<LogW>>
               /\ current_emotion_index' = NextIndex(current_emotion_index)
    /\ UNCHANGED <<registry, emotion_gif, emotion_timer, lv_timers>>
    /\ Record("tick", "-")

\* Mutant: creating the display also puts the index back to 0.
create_emotion_display_resets_index ==
    /\ emotion_gif < MaxObjs
    /\ emotion_gif' = emotion_gif + 1
    /\ gif_src' = staticstate
    /\ emotion_timer' = NewTimer
    /\ lv_timers' = lv_timers \cup {NewTimer}
    /\ current_emotion_index' = 0
    /\ logs' = <<LogI, LogI, LogI>>
    /\ UNCHANGED registry
    /\ Record("create", "-")

\* create_emotion_display
create_emotion_display ==
    /\ emotion_gif < MaxObjs
    /\ emotion_gif' = emotion_gif + 1
    /\ gif_src' = staticstate
    /\ emotion_timer' = NewTimer
    /\ lv_timers' = lv_timers \cup {NewTimer}
    /\ logs' = <<LogI, LogI, LogI>>
    /\ UNCHANGED <<registry, current_emotion_index>>
    /\ Record("create", "-")

\* Mutant: a name that is not found shows the fallback, as the timer does.
set_emotion_by_name_fallback(emotion_name) ==
    /\ IF emotion_gif = NULL
       THEN /\ logs' = <<LogE>>
            /\ UNCHANGED gif_src
       ELSE LET emotion == otto_emoji_gif_get_by_name(emotion_name)
            IN IF emotion # NULL_IMG
               THEN /\ gif_src' = emotion
                    /\ logs' = <<LogI>>
               ELSE /\ logs' = <<LogW>>
                    /\ gif_src' = staticstate
    /\ UNCHANGED <<registry, emotion_gif, emotion_timer, lv_timers, current_emotion_index>>
    /\ Record("set_by_name", emotion_name)

\* Mutant: a manual set that succeeds also restarts the rotation at index 0.
set_emotion_by_name_resets_index(emotion_name) ==
    /\ IF emotion_gif = NULL
       THEN /\ logs' = <<LogE>>
            /\ UNCHANGED <<gif_src, current_emotion_index>>
       ELSE LET emotion == otto_emoji_gif_get_by_name(emotion_name)
            IN IF emotion # NULL_IMG
               THEN /\ gif_src' = emotion
                    /\ current_emotion_index' = 0
                    /\ logs' = <<LogI>>
               ELSE /\ logs' = <<LogW>>
                    /\ UNCHANGED <<gif_src, current_emotion_index>>
    /\ UNCHANGED <<registry, emotion_gif, emotion_timer, lv_timers>>
    /\ Record("set_by_name", emotion_name)

\* Mutant: the result of the lookup is forwarded without the NULL test.
set_emotion_by_name_no_check(emotion_name) ==
    /\ IF emotion_gif = NULL
       THEN /\ logs' = <<LogE>>
            /\ UNCHANGED gif_src
       ELSE LET emotion == otto_emoji_gif_get_by_name(emotion_name)
            IN /\ gif_src' = emotion
               /\ logs' = IF emotion # NULL_IMG THEN <<LogI>> ELSE <<LogW>>
    /\ UNCHANGED <<registry, emotion_gif, emotion_timer, lv_timers, current_emotion_index>>
    /\ Record("set_by_name", emotion_name)

\* set_emotion_by_name
set_emotion_by_name(emotion_name) ==
    /\ IF emotion_gif = NULL
       THEN /\ logs' = <<LogE>>
            /\ UNCHANGED gif_src
       ELSE LET emotion == otto_emoji_gif_get_by_name(emotion_name)
            IN IF emotion # NULL_IMG
               THEN /\ gif_src' = emotion
                    /\ logs' = <<LogI>>
               ELSE /\ logs' = <<LogW>>
                    /\ UNCHANGED gif_src
    /\ UNCHANGED <<registry, emotion_gif, emotion_timer, lv_timers, current_emotion_index>>
    /\ Record("set_by_name", emotion_name)

\* Mutant: stopping also puts the index back to 0.
stop_auto_emotion_switch_resets_index ==
    /\ IF emotion_timer # NULL
       THEN /\ lv_timers' = lv_timers \ {emotion_timer}
            /\ emotion_timer' = NULL
            /\ current_emotion_index' = 0
            /\ logs' = <<LogI>>
       ELSE /\ UNCHANGED <<lv_timers, emotion_timer, current_emotion_index>>
            /\ logs' = <<>>
    /\ UNCHANGED <<registry, emotion_gif, gif_src>>
    /\ Record("stop", "-")

\* Mutant: the timer is deleted but emotion_timer is not set back to NULL.
stop_auto_emotion_switch_keeps_pointer ==
    /\ IF emotion_timer # NULL
       THEN /\ lv_timers' = lv_timers \ {emotion_timer}
            /\ UNCHANGED emotion_timer
            /\ logs' = <<LogI>>
       ELSE /\ UNCHANGED <<lv_timers, emotion_timer>>
            /\ logs' = <<>>
    /\ UNCHANGED <<registry, emotion_gif, gif_src, current_emotion_index>>
    /\ Record("stop", "-")

\* stop_auto_emotion_switch
stop_auto_emotion_switch ==
    /\ IF emotion_timer # NULL
       THEN /\ lv_timers' = lv_timers \ {emotion_timer}
            /\ emotion_timer' = NULL
            /\ logs' = <<LogI>>
       ELSE /\ UNCHANGED <<lv_timers, emotion_timer>>
            /\ logs' = <<>>
    /\ UNCHANGED <<registry, emotion_gif, gif_src, current_emotion_index>>
    /\ Record("stop", "-")

\* Mutant: starting is refused, with an error line, while emotion_gif is NULL.
start_auto_emotion_switch_requires_gif ==
    /\ IF emotion_gif = NULL
       THEN /\ UNCHANGED <<lv_timers, emotion_timer>>
            /\ logs' = <<LogE>>
       ELSE IF emotion_timer = NULL
       THEN /\ emotion_timer' = NewTimer
            /\ lv_timers' = lv_timers \cup {NewTimer}
            /\ logs' = <<LogI>>
       ELSE /\ UNCHANGED <<lv_timers, emotion_timer>>
            /\ logs' = <<>>
    /\ UNCHANGED <<registry, emotion_gif, gif_src, current_emotion_index>>
    /\ Record("start", "-")

\* start_auto_emotion_switch
start_auto_emotion_switch ==
    /\ IF emotion_timer = NULL
       THEN /\ emotion_timer' = NewTimer
            /\ lv_timers' = lv_timers \cup {NewTimer}
            /\ logs' = <<LogI>>
       ELSE /\ UNCHANGED <<lv_timers, emotion_timer>>
            /\ logs' = <<>>
    /\ UNCHANGED <<registry, emotion_gif, gif_src, current_emotion_index>>
    /\ Record("start", "-")

Tick == \E t \in lv_timers : emotion_timer_callback(t)

SetByName == \E n \in Names : set_emotion_by_name(n)

\* all_emotions[] of demo_all_emotions, indexed from 0 as in C.
all_emotions ==
    (0 :> "staticstate" @@ 1 :> "happy" @@ 2 :> "sad" @@
     3 :> "anger" @@ 4 :> "scare" @@ 5 :> "buxue")

\* sizeof(all_emotions) / sizeof(all_emotions[0])
demo_emotion_count == Cardinality(DOMAIN all_emotions)

\* demo_all_emotions is entered: the opening log line, then i = 0.
demo_all_emotions_begin ==
    /\ demo_pc = "idle"
    /\ demo_pc' = "call"
    /\ demo_i' = 0
    /\ demo_trace' = <<>>
    /\ demo_clean' = TRUE
    /\ logs' = <<LogI>>
    /\ UNCHANGED <<registry, emotion_gif, gif_src, emotion_timer, lv_timers,
                   current_emotion_index, conc>>
    /\ Record("demo_begin", "-")

\* The loop body's call set_emotion_by_name(all_emotions[i]).
demo_all_emotions_call ==
    /\ demo_pc = "call"
    /\ set_emotion_by_name(all_emotions[demo_i])
    /\ demo_pc' = "delay"
    /\ demo_trace' = Append(demo_trace, all_emotions[demo_i])
    /\ UNCHANGED <<demo_i, demo_clean, conc>>

\* Mutant: the loop stops one entry short (i < emotion_count - 1).
demo_all_emotions_delay_short ==
    /\ demo_pc = "delay"
    /\ demo_i' = demo_i + 1
    /\ demo_trace' = Append(demo_trace, "delay")
    /\ IF demo_i + 1 < demo_emotion_count - 1
       THEN /\ demo_pc' = "call"
            /\ logs' = <<>>
            /\ Record("delay", "-")
       ELSE /\ demo_pc' = "idle"
            /\ logs' = <<LogI>>
            /\ Record("demo_all", "-")
    /\ UNCHANGED <<registry, emotion_gif, gif_src, emotion_timer, lv_timers,
                   current_emotion_index, demo_clean, conc>>

\* vTaskDelay returns, i++, and the loop test: the next call, or the closing
\* log line and the return.
demo_all_emotions_delay ==
    /\ demo_pc = "delay"
    /\ demo_i' = demo_i + 1
    /\ demo_trace' = Append(demo_trace, "delay")
    /\ IF demo_i + 1 < demo_emotion_count
       THEN /\ demo_pc' = "call"
            /\ logs' = <<>>
            /\ Record("delay", "-")
       ELSE /\ demo_pc' = "idle"
            /\ logs' = <<LogI>>
            /\ Record("demo_all", "-")
    /\ UNCHANGED <<registry, emotion_gif, gif_src, emotion_timer, lv_timers,
                   current_emotion_index, demo_clean, conc>>

\* A step of demo_all_emotions once it has been entered.
DemoStep == demo_all_emotions_call \/ demo_all_emotions_delay

\* The host task makes its calls one after another: while demo_all_emotions
\* blocks it, it makes no other call.
HostIdle == demo_pc = "idle"

CallCreate == HostIdle /\ create_emotion_display /\ UNCHANGED <<demo, conc>>

CallSetByName == HostIdle /\ SetByName /\ UNCHANGED <<demo, conc>>

CallStop == HostIdle /\ stop_auto_emotion_switch /\ UNCHANGED <<demo, conc>>

CallStart == HostIdle /\ start_auto_emotion_switch /\ UNCHANGED <<demo, conc>>

\* LVGL fires a live timer, between two calls of the host task or between
\* two steps of demo_all_emotions.
TimerFires ==
    /\ Tick
    /\ demo_clean' = (demo_clean /\ demo_pc = "idle")
    /\ UNCHANGED <<demo_pc, demo_i, demo_trace, conc>>

Next ==
    \/ CallStart
    \/ CallCreate
    \/ TimerFires
    \/ CallSetByName
    \/ CallStop
    \/ demo_all_emotions_begin
    \/ DemoStep

Spec == Init /\ [][Next]_vars

\* The FreeRTOS scheduler resumes the host task when its delay has expired,
\* and a call it makes returns.
FairSpec == Spec /\ WF_vars(DemoStep)

\* ------------------------------------------------- overlapping invocations
\* The state after create_emotion_display and k timer firings, k in 0..5,
\* with no invocation in progress.
ConcInit ==
    /\ registry \in Registries
    /\ emotion_gif = 1
    /\ emotion_timer = 1
    /\ lv_timers = {1}
    /\ current_emotion_index \in DOMAIN emotion_sequence
    /\ gif_src = IF current_emotion_index = 0 THEN staticstate
                 ELSE IF emotion_sequence[current_emotion_index - 1] \in registry
                 THEN [dsc |-> emotion_sequence[current_emotion_index - 1]]
                 ELSE staticstate
    /\ logs = IF current_emotion_index = 0 THEN <<LogI, LogI, LogI>>
              ELSE IF emotion_sequence[current_emotion_index - 1] \in registry
              THEN <<LogI>> ELSE <<LogW>>
    /\ op = [name |-> IF current_emotion_index = 0 THEN "create" ELSE "tick", arg |-> "-"]
    /\ run = IF current_emotion_index = 0 THEN 1 ELSE current_emotion_index
    /\ run_start = 0
    /\ demo_pc = "idle"
    /\ demo_i = 0
    /\ demo_trace = <<>>
    /\ demo_clean = TRUE
    /\ tpc = [t \in TickThreads |-> "idle"]
    /\ tidx = [t \in TickThreads |-> 0]
    /\ tload = [t \in TickThreads |-> 0]
    /\ spc = "idle"
    /\ sarg = "-"
    /\ conc_start = current_emotion_index
    /\ conc_begun = 0
    /\ conc_sets = 0
    /\ conc_done = 0

\* emotion_timer_callback is entered in context t: the test of emotion_gif.
cb_enter(t) ==
    /\ tpc[t] = "idle"
    /\ conc_begun < MaxTicks
    /\ conc_begun' = conc_begun + 1
    /\ tpc' = [tpc EXCEPT ![t] = IF emotion_gif = NULL THEN "idle" ELSE "name"]
    /\ UNCHANGED <<registry, prog, logs, history, demo, tidx, tload, spc, sarg,
                   conc_start, conc_sets, conc_done>>

\* emotion_name = emotion_sequence[current_emotion_index]: the index is read.
cb_read_name(t) ==
    /\ tpc[t] = "name"
    /\ tidx' = [tidx EXCEPT ![t] = current_emotion_index]
    /\ tpc' = [tpc EXCEPT ![t] = "show"]
    /\ UNCHANGED <<registry, prog, logs, history, demo, tload, spc, sarg,
                   conc_start, conc_begun, conc_sets, conc_done>>

\* The lookup and lv_gif_set_src, with the log line of the branch taken.
cb_show(t) ==
    /\ tpc[t] = "show"
    /\ LET emotion == otto_emoji_gif_get_by_name(emotion_sequence[tidx[t]])
       IN IF emotion # NULL_IMG
          THEN gif_src' = emotion /\ logs' = <<LogI>>
          ELSE gif_src' = staticstate /\ logs' = <<LogW>>
    /\ tpc' = [tpc EXCEPT ![t] = "load"]
    /\ UNCHANGED <<registry, emotion_gif, emotion_timer, lv_timers,
                   current_emotion_index, history, demo, tidx, tload, spc, sarg,
                   conc_start, conc_begun, conc_sets, conc_done>>

\* The read of current_emotion_index in the assignment that advances it.  No
\* synchronisation lies between this read and the one of cb_read_name, so
\* the build may load the variable again or reuse the value it holds.
cb_load(t) ==
    /\ tpc[t] = "load"
    /\ \E v \in {current_emotion_index, tidx[t]} :
          tload' = [tload EXCEPT ![t] = v]
    /\ tpc' = [tpc EXCEPT ![t] = "store"]
    /\ UNCHANGED <<registry, prog, logs, history, demo, tidx, spc, sarg,
                   conc_start, conc_begun, conc_sets, conc_done>>

\* The write of current_emotion_index, and the return.
cb_store(t) ==
    /\ tpc[t] = "store"
    /\ current_emotion_index' = NextIndex(tload[t])
    /\ tpc' = [tpc EXCEPT ![t] = "idle"]
    /\ conc_done' = conc_done + 1
    /\ UNCHANGED <<registry, emotion_gif, gif_src, emotion_timer, lv_timers,
                   logs, history, demo, tidx, tload, spc, sarg,
                   conc_start, conc_begun, conc_sets>>

\* set_emotion_by_name(n) is entered: the test of emotion_gif.
set_enter(n) ==
    /\ spc = "idle"
    /\ conc_sets < MaxSets
    /\ conc_sets' = conc_sets + 1
    /\ sarg' = n
    /\ IF emotion_gif = NULL
       THEN spc' = "idle" /\ logs' = <<LogE>>
       ELSE spc' = "show" /\ UNCHANGED logs
    /\ UNCHANGED <<registry, prog, history, demo, tpc, tidx, tload,
                   conc_start, conc_begun, conc_done>>

\* The lookup and, when it succeeds, lv_gif_set_src; the log line; the return.
set_show ==
    /\ spc = "show"
    /\ LET emotion == otto_emoji_gif_get_by_name(sarg)
       IN IF emotion # NULL_IMG
          THEN gif_src' = emotion /\ logs' = <<LogI>>
          ELSE UNCHANGED gif_src /\ logs' = <<LogW>>
    /\ spc' = "idle"
    /\ UNCHANGED <<registry, emotion_gif, emotion_timer, lv_timers,
                   current_emotion_index, history, demo, tpc, tidx, tload, sarg,
                   conc_start, conc_begun, conc_sets, conc_done>>

CbEnter == \E t \in TickThreads : cb_enter(t)

CbReadName == \E t \in TickThreads : cb_read_name(t)

CbShow == \E t \in TickThreads : cb_show(t)

CbLoad == \E t \in TickThreads : cb_load(t)

CbStore == \E t \in TickThreads : cb_store(t)

SetEnter == \E n \in Names : set_enter(n)

ConcNext ==
    \/ CbEnter
    \/ CbReadName
    \/ CbShow
    \/ CbLoad
    \/ CbStore
    \/ SetEnter
    \/ set_show

\* No lock is taken anywhere in basic_usage.c: the steps interleave freely.
ConcSpec == ConcInit /\ [][ConcNext]_vars

\* ---------------------------------------------------------------- claims
\* The handle a tick is to forward for name: the registered descriptor, or the
\* fallback when the registry does not hold the name.
HandleFor(name) == IF name \in registry THEN [dsc |-> name] ELSE staticstate

\* Whether the last call was the one named name.
Was(name) == op.name = name

\* C1 (as stated): after a tick on a constructed display, the handle shown is
\* the one for the name at the index the tick advanced to.
C1_TickShowsNewIndex ==
    (Was("tick") /\ emotion_gif # NULL)
        => gif_src = HandleFor(emotion_sequence[current_emotion_index])

\* C1 (amended): a tick on a constructed display forwards the handle for the
\* name at the index it finds, and only then advances the index by 1 modulo
\* the sequence length; from index 0 the first tick shows the first entry.
C1_TickShowsOldIndexThenAdvances ==
    [][(op'.name = "tick" /\ emotion_gif # NULL)
         => /\ gif_src' = HandleFor(emotion_sequence[current_emotion_index])
            /\ current_emotion_index' = (current_emotion_index + 1) % 6]_vars

\* The first tick after construction, from index 0, has shown the first entry
\* and moved the index to 1.
C1_Witness ==
    /\ Was("tick") /\ emotion_gif # NULL
    /\ run = 1 /\ run_start = 0 /\ current_emotion_index = 1
    /\ gif_src = HandleFor("staticstate")
    /\ gif_src # HandleFor("happy")

\* C2: len(sequence) ticks in a row, with no other call between them, bring
\* current_index back to the value it had before the first of them.
C2_TicksCycle ==
    (Was("tick") /\ run = 6) => current_emotion_index = run_start

\* Six ticks in a row on a constructed display, begun at index 3.
C2_Witness ==
    /\ Was("tick") /\ run = 6 /\ emotion_gif # NULL
    /\ run_start = 3 /\ current_emotion_index = 3

\* C3: a tick whose name the registry does not hold advances the index by
\* one, forwards the fallback handle, logs one warning, and leaves the timers
\* as they were, so a timer is still live to fire the next tick.
C3_TickNotFoundFallsBack ==
    [][(op'.name = "tick" /\ emotion_gif # NULL
            /\ emotion_sequence[current_emotion_index] \notin registry)
         => /\ current_emotion_index' = (current_emotion_index + 1) % 6
            /\ gif_src' = staticstate
            /\ logs' = <<LogW>>
            /\ lv_timers' = lv_timers /\ lv_timers' # {}
            /\ emotion_timer' = emotion_timer]_vars

\* A tick has met the unregistered name "sad" at index 2 while "happy" was
\* shown: the fallback is shown, the index is 3 and the timer is live.
C3_Witness ==
    /\ Was("tick") /\ run >= 2 /\ "sad" \notin registry
    /\ current_emotion_index = 3
    /\ gif_src = staticstate /\ logs = <<LogW>>
    /\ emotion_timer \in lv_timers

\* C4: set_by_name on a constructed display, with a name the registry does
\* not hold, leaves the handle shown as it was (no fallback) and logs exactly
\* one line, a warning.
C4_SetNotFoundKeepsDisplay ==
    [][(op'.name = "set_by_name" /\ emotion_gif # NULL /\ op'.arg \notin registry)
         => /\ gif_src' = gif_src
            /\ logs' = <<LogW>>]_vars

\* set_by_name("unknown") was called while a handle other than the fallback
\* was shown, and that handle is still shown.
C4_Witness ==
    /\ Was("set_by_name") /\ op.arg = "unknown" /\ emotion_gif # NULL
    /\ gif_src = [dsc |-> "happy"]
    /\ logs = <<LogW>>

\* C5 (as stated): start() while a timer is referenced changes nothing, and
\* after two start() calls in a row exactly one timer is live.
C5_StartTwiceOneTimer ==
    [][op'.name = "start"
         => /\ emotion_timer # NULL => (prog' = prog /\ logs' = <<>>)
            /\ op.name = "start" => Cardinality(lv_timers') = 1]_vars

\* C6 (as stated): while rotation is stopped (emotion_timer is NULL) no timer
\* firing changes current_index or the handle shown.
C6_NoTickEffectWhenStopped ==
    [][(op'.name = "tick" /\ emotion_timer = NULL)
         => /\ current_emotion_index' = current_emotion_index
            /\ gif_src' = gif_src]_vars

\* C7 (as stated): at most one timer is live, and it is the one emotion_timer
\* refers to.
C7_SingleTimer ==
    lv_timers = IF emotion_timer = NULL THEN {} ELSE {emotion_timer}

\* C8 (as stated): while emotion_gif is NULL, set_by_name, tick and start
\* change no state and log one error line.
C8_UninitializedAllNoOp ==
    [][(emotion_gif = NULL /\ op'.name \in {"set_by_name", "tick", "start"})
         => (prog' = prog /\ logs' = <<LogE>>)]_vars

\* C8 (amended): while emotion_gif is NULL, set_by_name changes no state and
\* logs one error line; a tick changes no state and logs nothing; start
\* leaves the display and the index alone but, when emotion_timer is NULL,
\* creates a timer and logs one info line (and does nothing otherwise).
C8_UninitializedPerOperation ==
    [][emotion_gif = NULL
         => /\ op'.name = "set_by_name" => (prog' = prog /\ logs' = <<LogE>>)
            /\ op'.name = "tick" => (prog' = prog /\ logs' = <<>>)
            /\ op'.name = "start"
                 => /\ UNCHANGED <<emotion_gif, gif_src, current_emotion_index>>
                    /\ IF emotion_timer = NULL
                       THEN /\ emotion_timer' # NULL
                            /\ emotion_timer' \notin lv_timers
                            /\ lv_timers' = lv_timers \cup {emotion_timer'}
                            /\ logs' = <<LogI>>
                       ELSE /\ UNCHANGED <<emotion_timer, lv_timers>>
                            /\ logs' = <<>>]_vars

\* Before construction, start() has created a timer and that timer has fired
\* twice without changing anything.
C8_Witness ==
    /\ emotion_gif = NULL /\ Was("tick") /\ run = 2
    /\ emotion_timer \in lv_timers
    /\ current_emotion_index = 0 /\ gif_src = NULL_IMG /\ logs = <<>>

\* C9 (as stated): after stop() current_index is back at 0.
C9_StopResetsIndex ==
    Was("stop") => current_emotion_index = 0

\* C9 (amended): stop() leaves current_index as it is, and so does start(), so
\* rotation resumes at the index where it was halted.
C9_StopStartKeepIndex ==
    [][op'.name \in {"stop", "start"}
         => current_emotion_index' = current_emotion_index]_vars

\* Rotation was stopped at index 2 and start() has created a new timer: the
\* index is still 2.
C9_Witness ==
    /\ Was("start") /\ logs = <<LogI>> /\ emotion_gif # NULL
    /\ emotion_timer \in lv_timers
    /\ current_emotion_index = 2 /\ run_start = 2

DemoExpected ==
    <<"staticstate", "delay", "happy", "delay", "sad", "delay",
      "anger", "delay", "scare", "delay", "buxue", "delay">>

\* What demo_all has done so far is the beginning of DemoExpected, it returns
\* only when it has done all of it, and then, on a constructed display with
\* every name registered and no timer firing since it began, the last entry
\* is shown.
C11_DemoSafe ==
    /\ Len(demo_trace) <= Len(DemoExpected)
    /\ demo_trace = SubSeq(DemoExpected, 1, Len(demo_trace))
    /\ Was("demo_all") => demo_trace = DemoExpected
    /\ demo_pc = "idle" => demo_trace \in {<<>>, DemoExpected}
    /\ (Was("demo_all") /\ emotion_gif # NULL /\ demo_clean
            /\ \A i \in 1..Len(DemoExpected) :
                  DemoExpected[i] = "delay" \/ DemoExpected[i] \in registry)
         => gif_src = [dsc |-> "buxue"]

\* C11: demo_all terminates, having called set_by_name once for each entry of
\* its list, in list order, with one delay after each call; with the display
\* constructed, every name registered and no tick in between, the display
\* shows the last entry when it returns.
C11_DemoAllTerminates ==
    /\ []C11_DemoSafe
    /\ (demo_pc # "idle") ~> (demo_pc = "idle")

\* demo_all has returned on a constructed display with no tick in between:
\* twelve steps were made and "buxue" is shown.
C11_Witness ==
    /\ Was("demo_all") /\ demo_pc = "idle" /\ demo_clean
    /\ emotion_gif # NULL /\ emotion_timer \in lv_timers
    /\ Len(demo_trace) = 12
    /\ gif_src = [dsc |-> "buxue"]

\* C12: no operation changes the registry, and what a caller sees of a lookup
\* depends on the name and the registry alone: a registered name always
\* gives the descriptor registered under it, an unregistered one NotFound.
C12_LookupPure ==
    [][/\ registry' = registry
       /\ (op'.name = "set_by_name" /\ emotion_gif # NULL)
            => IF op'.arg \in registry
               THEN gif_src' = [dsc |-> op'.arg] /\ logs' = <<LogI>>
               ELSE gif_src' = gif_src /\ logs' = <<LogW>>
       /\ (op'.name = "tick" /\ emotion_gif # NULL)
            => IF emotion_sequence[current_emotion_index] \in registry
               THEN /\ gif_src' = [dsc |-> emotion_sequence[current_emotion_index]]
                    /\ logs' = <<LogI>>
               ELSE logs' = <<LogW>>]_vars

\* The second of two set_by_name calls in a row has resolved "happy" while
\* "sad" is the name the registry lacks.
C12_Witness ==
    /\ Was("set_by_name") /\ run = 2 /\ op.arg = "happy"
    /\ emotion_gif # NULL /\ gif_src = [dsc |-> "happy"]
    /\ registry = {"staticstate", "happy", "anger", "scare", "buxue"}

\* C14: current_index is always in 0..5, within the bounds of
\* emotion_sequence.
C14_IndexInRange ==
    /\ current_emotion_index \in 0..5
    /\ current_emotion_index \in DOMAIN emotion_sequence

\* A tick at the last index, 5, has wrapped the index to 0.
C14_Witness ==
    /\ Was("tick") /\ run = 1 /\ emotion_gif # NULL
    /\ run_start = 5 /\ current_emotion_index = 0

\* C15: set_by_name and every step of demo_all leave current_index and the
\* timers as they are, whether or not the name resolves; the tick that
\* follows a set_by_name shows the entry current_index selects, whatever was
\* set by hand.
C15_SetByNameFrame ==
    [][/\ op'.name \in {"set_by_name", "demo_begin", "delay", "demo_all"}
            => UNCHANGED <<current_emotion_index, emotion_timer, lv_timers, emotion_gif>>
       /\ (op.name = "set_by_name" /\ op'.name = "tick" /\ emotion_gif # NULL)
            => gif_src' = HandleFor(emotion_sequence[current_emotion_index])]_vars

\* demo_all had just set "happy" when a timer fired at index 3: "anger" is
\* shown and the index is 4.
C15_Witness ==
    /\ demo_pc = "delay" /\ demo_i = 1 /\ Was("tick") /\ run = 1
    /\ emotion_gif # NULL /\ "anger" \in registry
    /\ gif_src = [dsc |-> "anger"] /\ current_emotion_index = 4

\* C16: once the display is constructed, the handle it holds is a descriptor
\* the registry returns for some name, or the fallback; never NULL.
C16_DisplayedHandleValid ==
    emotion_gif # NULL
        => /\ gif_src \in {[dsc |-> n] : n \in registry} \cup {staticstate}
           /\ gif_src # NULL_IMG

\* A tick has shown the fallback for "staticstate", which the registry lacks.
C16_Witness ==
    /\ emotion_gif # NULL /\ Was("tick") /\ logs = <<LogW>>
    /\ "staticstate" \notin registry
    /\ gif_src = staticstate /\ current_emotion_index = 1

\* C17: create_emotion_display returns with the fallback shown, a live timer
\* referenced and current_index as it was; a start() right after it changes
\* nothing, and a tick right after it shows the entry at the index that was
\* current before the call.
C17_CreateStartsRotation ==
    [][/\ op'.name = "create"
            => /\ gif_src' = staticstate
               /\ emotion_timer' # NULL /\ emotion_timer' \in lv_timers'
               /\ current_emotion_index' = current_emotion_index
       /\ (op.name = "create" /\ op'.name = "start")
            => (prog' = prog /\ logs' = <<>>)
       /\ (op.name = "create" /\ op'.name = "tick")
            => /\ gif_src' = HandleFor(emotion_sequence[run_start])
               /\ current_emotion_index' = (run_start + 1) % 6]_vars

\* create_emotion_display has been called while the index was 3: the
\* fallback is shown, a timer is live and the index is still 3.
C17_Witness ==
    /\ Was("create") /\ current_emotion_index = 3 /\ run_start = 3
    /\ gif_src = staticstate /\ emotion_timer \in lv_timers

\* C13 (as stated): overlapping invocations are serialized, so whenever none
\* is in progress every completed tick has advanced the index by one, as in
\* some sequential order of the whole operations.
C13_NoAdvanceLost ==
    ((\A t \in TickThreads : tpc[t] = "idle") /\ spc = "idle")
        => current_emotion_index = (conc_start + conc_done) % 6

====
